---- MODULE Spec2Model ----
(***************************************************************************)
(* Model of the reviewer lottery (src/src/lottery.ts): class Lottery with   *)
(* run, isReadyToReview, getPR, getPRAuthor, selectReviewers, pickRandom,   *)
(* setReviewers and alertOnSlack.                                           *)
(*                                                                          *)
(* Values.  A JavaScript string is a sequence of one-character strings      *)
(* ("a:x" is <<"a", ":", "x">>, '' is <<>>).  The JavaScript value          *)
(* undefined inside a string array is the one-element sequence Undefined,   *)
(* whose element is not a character, so it equals no string.  An optional   *)
(* object (this.pr, pr.user) is a sequence of length at most one.  An       *)
(* optional count (reviewers, internal_reviewers) is NoCount when absent.   *)
(* A configuration entry that is not a string is Null.                      *)
(*                                                                          *)
(* Specifications.  Spec is one run(); SpecPick is a direct call of         *)
(* pickRandom; SpecCalls is any sequence of direct getPR, isReadyToReview   *)
(* and getPRAuthor calls on one instance.                                   *)
(***************************************************************************)
EXTENDS Integers, Sequences, FiniteSets, TLC

VARIABLES
    config,             \* this.config.groups
    pc,                 \* position of run() / of the pickRandom call
    pr,                 \* this.pr
    lookup,             \* what the last pulls.list call answered: none, threw, nomatch, match
    listCalls,          \* number of octokit.pulls.list calls
    failed,             \* number of core.setFailed calls
    author,             \* selectReviewers: author
    selected,           \* selectReviewers: selected
    gi,                 \* selectReviewers: index of the group being processed
    reviewersToRequest, \* selectReviewers: count resolved for the last group
    items,              \* pickRandom: items
    pickN,              \* pickRandom: n
    ignore,             \* pickRandom: ignore
    candidates,         \* pickRandom: candidates
    picks,              \* pickRandom: picks
    iter,               \* pickRandom: iterations of the while loop so far, modulo 2
    requestCalls,       \* reviewer lists passed to pulls.requestReviewers
    requestFailed,      \* pulls.requestReviewers rejected
    sendState,          \* incomingWebhook.send: none, inflight, ok, failed
    notified,           \* reviewer lists handed to incomingWebhook.send
    ready,              \* run: ready, the last value isReadyToReview returned (none yet: <<>>)
    logged,             \* number of core.error calls
    thrown,             \* selectReviewers: the group whose step threw and selected at that time
    calls               \* number of direct method calls made on the instance

vars == <<config, pc, pr, lookup, listCalls, failed, author, selected, gi,
          reviewersToRequest, items, pickN, ignore, candidates, picks, iter,
          requestCalls, requestFailed, sendState, notified, ready, logged,
          thrown, calls>>

runVars == <<config, pr, lookup, listCalls, failed, author, selected, gi,
             reviewersToRequest, requestCalls, requestFailed, sendState,
             notified, ready, logged, thrown, calls>>

----------------------------------------------------------------------------
(* Bounds *)

MaxGroups == 2      \* groups in a configuration
MaxCount == 2       \* largest reviewers / internal_reviewers value
MaxPulls == 2       \* pull requests in one pulls.list answer
MaxItems == 3       \* length of items in a direct pickRandom call
MaxN == 3           \* largest n in a direct pickRandom call
MaxIgnore == 2      \* length of ignore in a direct pickRandom call
MaxCalls == 4       \* direct method calls made on one instance

----------------------------------------------------------------------------
(* Values *)

Undefined == <<"undefined">>

NoCount == -1

(* a configuration entry that is not a string (an empty YAML list item) *)
Null == <<"null">>

IsString(v) == v # Null /\ v # Undefined

Ref == "head"

Str(c) == <<c>>

Names == {Str("a"), Str("b"), Str("c")}

Logins == {Str("a"), Str("b")}

BSeq(S, k) == UNION {[1..m -> S] : m \in 0..k}

Range(s) == {s[i] : i \in 1..Len(s)}

Min(x, y) == IF x <= y THEN x ELSE y

(* Array.prototype.includes *)
Includes(arr, v) == \E i \in 1..Len(arr) : arr[i] = v

(* JavaScript truthiness of an optional count: undefined and 0 are falsy *)
Truthy(c) == c # NoCount /\ c # 0

(* name.split(':')[0]: the characters before the first ':' *)
SplitHead(name) ==
    LET colons == {i \in 1..Len(name) : name[i] = ":"}
    IN  IF colons = {} THEN name
        ELSE SubSeq(name, 1, (CHOOSE i \in colons : \A j \in colons : i <= j) - 1)

(* usernamesIncludingSlackName.map(name => name.split(':')[0]) *)
Usernames(group) == [i \in 1..Len(group.usernames) |-> SplitHead(group.usernames[i])]

----------------------------------------------------------------------------
(* Configurations *)

UsernameLists ==
    { << <<"a", ":", "x">>, <<"b">>, <<"c", ":", "y">> >>,
      << <<"b", ":", "z">> >> }

(* a group with an entry that is not a string *)
MalformedGroup ==
    [usernames |-> << <<"d">>, Null >>, reviewers |-> 1, internal_reviewers |-> NoCount]

Counts == 0..MaxCount

Groups ==
    [usernames : UsernameLists,
     reviewers : Counts \cup {NoCount},
     internal_reviewers : Counts \cup {NoCount}]
    \cup {MalformedGroup}

Configs == UNION {[1..m -> Groups] : m \in 1..MaxGroups}

(* Answers of octokit.pulls.list *)
Pulls == [ref : {Ref, "other"}, draft : BOOLEAN, user : BSeq(Logins, 1)]

ListResponses ==
    [ok : {TRUE}, data : BSeq(Pulls, MaxPulls)] \cup [ok : {FALSE}, data : {<<>>}]

----------------------------------------------------------------------------
(* pickRandom *)

(* items.filter(item => !ignore.includes(item)) *)
Filter(its, ign) == SelectSeq(its, LAMBDA item : ~Includes(ign, item))

(* Math.floor(Math.random() * candidates.length) *)
RandomIndices(len) == IF len = 0 THEN {0} ELSE 0..(len - 1)

(* candidates.splice(random, 1)[0] *)
SplicePick(cands, random) ==
    IF random < Len(cands) THEN cands[random + 1] ELSE Undefined

(* candidates after candidates.splice(random, 1) *)
SpliceRest(cands, random) ==
    IF random < Len(cands)
    THEN SubSeq(cands, 1, random) \o SubSeq(cands, random + 2, Len(cands))
    ELSE cands

(* if (!picks.includes(pick)) picks.push(pick) *)
PushIfNew(pks, pick) == IF Includes(pks, pick) THEN pks ELSE Append(pks, pick)

(* one iteration of while (picks.length < n) *)
PickIter ==
    /\ pc = "pick"
    /\ Len(picks) < pickN
    /\ \E random \in RandomIndices(Len(candidates)) :
         /\ picks' = PushIfNew(picks, SplicePick(candidates, random))
         /\ candidates' = SpliceRest(candidates, random)
    /\ iter' = (iter + 1) % 2
    /\ UNCHANGED <<pc, items, pickN, ignore>>
    /\ UNCHANGED runVars

----------------------------------------------------------------------------
(* Direct calls of pickRandom(items, n, ignore) *)

IdleRun ==
    /\ config = <<>>
    /\ pr = <<>>
    /\ lookup = "none"
    /\ listCalls = 0
    /\ failed = 0
    /\ author = <<>>
    /\ selected = <<>>
    /\ gi = 0
    /\ reviewersToRequest = NoCount
    /\ requestCalls = <<>>
    /\ requestFailed = FALSE
    /\ sendState = "none"
    /\ notified = <<>>
    /\ ready = <<>>
    /\ logged = 0
    /\ thrown = <<>>
    /\ calls = 0

InitPick ==
    /\ pc = "call"
    /\ items \in BSeq(Names, MaxItems)
    /\ pickN \in 0..MaxN
    /\ ignore \in BSeq(Names, MaxIgnore)
    /\ candidates = <<>>
    /\ picks = <<>>
    /\ iter = 0
    /\ IdleRun

(* lines 150-152: const picks = [], candidates = items.filter(...) *)
PickCall ==
    /\ pc = "call"
    /\ picks' = <<>>
    /\ candidates' = Filter(items, ignore)
    /\ iter' = 0
    /\ pc' = "pick"
    /\ UNCHANGED <<items, pickN, ignore>>
    /\ UNCHANGED runVars

(* line 161: return picks *)
PickReturn ==
    /\ pc = "pick"
    /\ ~(Len(picks) < pickN)
    /\ pc' = "returned"
    /\ UNCHANGED <<items, pickN, ignore, candidates, picks, iter>>
    /\ UNCHANGED runVars

NextPick == PickCall \/ PickIter \/ PickReturn

SpecPick == InitPick /\ [][NextPick]_vars

(* The loop is run by a single thread that never pauses: while a step is   *)
(* possible, one is eventually taken.                                       *)
FairSpecPick == SpecPick /\ WF_vars(NextPick)

----------------------------------------------------------------------------
(* getPR, isReadyToReview, getPRAuthor *)

(* variant: the first pull request of the answer, whatever its ref *)
FindFirst(data, ref) == IF data = <<>> THEN <<>> ELSE <<data[1]>>

(* data.find(({head: {ref}}) => ref === this.env.ref) *)
FindPR(data, ref) ==
    LET hits == {i \in 1..Len(data) : data[i].ref = ref}
    IN  IF hits = {} THEN <<>>
        ELSE <<data[CHOOSE i \in hits : \A j \in hits : i <= j]>>

(* variant: the cached PR is not consulted *)
GetPRNoCache(cur, resp) ==
    IF ~resp.ok THEN [pr |-> cur, ret |-> <<>>, fails |-> 1, calls |-> 1]
    ELSE LET found == FindPR(resp.data, Ref)
         IN  IF found = <<>>
             THEN [pr |-> found, ret |-> <<>>, fails |-> 1, calls |-> 1]
             ELSE [pr |-> found, ret |-> found, fails |-> 0, calls |-> 1]

(* getPR: the cached PR if there is one, else the outcome of one list call. *)
(* pr is the new this.pr, ret the value returned, fails the number of       *)
(* setFailed calls, calls the number of list calls.                         *)
GetPR(cur, resp) ==
    IF cur # <<>> THEN [pr |-> cur, ret |-> cur, fails |-> 0, calls |-> 0]
    ELSE IF ~resp.ok THEN [pr |-> cur, ret |-> <<>>, fails |-> 1, calls |-> 1]
    ELSE LET found == FindPR(resp.data, Ref)
         IN  IF found = <<>>
             THEN [pr |-> found, ret |-> <<>>, fails |-> 1, calls |-> 1]
             ELSE [pr |-> found, ret |-> found, fails |-> 0, calls |-> 1]

(* variant: the draft flag is not looked at *)
IsReadyIgnoringDraft(p) == p # <<>>

(* return !!pr && !pr.draft *)
IsReady(p) == p # <<>> /\ ~p[1].draft

(* line 188: octokit is asked only while this.pr is unset; with a cached   *)
(* PR no answer is awaited, which the single failing answer stands for     *)
PendingResponses(cur) ==
    IF cur # <<>> THEN {[ok |-> FALSE, data |-> <<>>]} ELSE ListResponses

(* return pr && pr.user ? pr.user.login : '' *)
AuthorOf(p) == IF p # <<>> /\ p[1].user # <<>> THEN p[1].user[1] ELSE <<>>

(* what a pulls.list answer holds for env.ref *)
Answer(resp) ==
    IF ~resp.ok THEN "threw"
    ELSE IF \E i \in 1..Len(resp.data) : resp.data[i].ref = Ref THEN "match"
    ELSE "nomatch"

----------------------------------------------------------------------------
(* run *)

Init ==
    /\ config \in Configs
    /\ pc = "start"
    /\ pr = <<>>
    /\ lookup = "none"
    /\ listCalls = 0
    /\ failed = 0
    /\ author = <<>>
    /\ selected = <<>>
    /\ gi = 0
    /\ reviewersToRequest = NoCount
    /\ items = <<>>
    /\ pickN = 0
    /\ ignore = <<>>
    /\ candidates = <<>>
    /\ picks = <<>>
    /\ iter = 0
    /\ requestCalls = <<>>
    /\ requestFailed = FALSE
    /\ sendState = "none"
    /\ notified = <<>>
    /\ ready = <<>>
    /\ logged = 0
    /\ thrown = <<>>
    /\ calls = 0

pickVars == <<items, pickN, ignore, candidates, picks, iter>>

(* line 49: const ready = await this.isReadyToReview(); line 50: if (ready) *)
IsReadyToReview ==
    /\ pc = "start"
    /\ \E resp \in PendingResponses(pr) :
         LET g == GetPR(pr, resp)
         IN  /\ pr' = g.pr
             /\ lookup' = Answer(resp)
             /\ listCalls' = listCalls + g.calls
             /\ failed' = failed + g.fails
             /\ logged' = logged + g.fails
             /\ ready' = <<IsReady(g.ret)>>
             /\ pc' = IF IsReady(g.ret) THEN "select" ELSE "done"
    /\ UNCHANGED <<config, author, selected, gi, reviewersToRequest,
                   requestCalls, requestFailed, sendState, notified, thrown,
                   calls>>
    /\ UNCHANGED pickVars

(* lines 114-115: let selected = [], author = await this.getPRAuthor() *)
SelectReviewers ==
    /\ pc = "select"
    /\ \E resp \in PendingResponses(pr) :
         LET g == GetPR(pr, resp)
         IN  /\ pr' = g.pr
             /\ lookup' = IF g.calls = 0 THEN lookup ELSE Answer(resp)
             /\ listCalls' = listCalls + g.calls
             /\ failed' = failed + g.fails
             /\ logged' = logged + g.fails
             /\ author' = AuthorOf(g.ret)
    /\ selected' = <<>>
    /\ gi' = 1
    /\ pc' = "group"
    /\ UNCHANGED <<config, reviewersToRequest, requestCalls, requestFailed,
                   sendState, notified, ready, thrown, calls>>
    /\ UNCHANGED pickVars

(* lines 126-129: the count to draw for a group *)
ReviewersToRequest(group, auth) ==
    IF Includes(Usernames(group), auth) /\ Truthy(group.internal_reviewers)
    THEN group.internal_reviewers
    ELSE group.reviewers

(* variant: the author is left out of the ignore list *)
IgnoreListNoAuthor(sel, auth) == sel

(* line 136: selected.concat(author) *)
IgnoreList(sel, auth) == sel \o <<auth>>

(* lines 123-125: name.split throws a TypeError on an entry that is not a  *)
(* string                                                                  *)
GroupThrows(group) == \E i \in 1..Len(group.usernames) : ~IsString(group.usernames[i])

(* variant: the catch block gives up what was selected *)
AfterGroupErrorEmpty(sel) == <<>>

(* lines 141-146: the list returned once the catch block has run *)
AfterGroupError(sel) == sel

(* lines 118-139: one group; a truthy count enters pickRandom.  A step     *)
(* that throws is caught at lines 141-144 and selectReviewers returns.     *)
ProcessGroup ==
    /\ pc = "group"
    /\ gi <= Len(config)
    /\ LET group == config[gi]
       IN  IF GroupThrows(group)
           THEN /\ thrown' = <<[group |-> gi, selected |-> selected]>>
                /\ failed' = failed + 1
                /\ logged' = logged + 1
                /\ selected' = AfterGroupError(selected)
                /\ pc' = "setReviewers"
                /\ UNCHANGED <<gi, reviewersToRequest>>
                /\ UNCHANGED pickVars
           ELSE LET count == ReviewersToRequest(group, author)
                IN  /\ reviewersToRequest' = count
                    /\ IF Truthy(count)
                       THEN /\ items' = Usernames(group)
                            /\ pickN' = count
                            /\ ignore' = IgnoreList(selected, author)
                            /\ candidates' = Filter(Usernames(group), IgnoreList(selected, author))
                            /\ picks' = <<>>
                            /\ iter' = 0
                            /\ pc' = "pick"
                            /\ gi' = gi
                       ELSE /\ UNCHANGED pickVars
                            /\ pc' = "group"
                            /\ gi' = gi + 1
                    /\ UNCHANGED <<failed, logged, thrown, selected>>
    /\ UNCHANGED <<config, pr, lookup, listCalls, author, requestCalls,
                   requestFailed, sendState, notified, ready, calls>>

(* lines 132-138: selected = selected.concat(this.pickRandom(...)) *)
ConcatPicks ==
    /\ pc = "pick"
    /\ gi >= 1
    /\ ~(Len(picks) < pickN)
    /\ selected' = selected \o picks
    /\ gi' = gi + 1
    /\ pc' = "group"
    /\ UNCHANGED pickVars
    /\ UNCHANGED <<config, pr, lookup, listCalls, failed, author,
                   reviewersToRequest, requestCalls, requestFailed, sendState,
                   notified, ready, logged, thrown, calls>>

(* line 146: return selected *)
SelectReturn ==
    /\ pc = "group"
    /\ gi > Len(config)
    /\ pc' = "setReviewers"
    /\ UNCHANGED pickVars
    /\ UNCHANGED runVars

(* variant: the length guard is dropped *)
AlwaysNonEmpty(reviewers) == TRUE

(* lines 52-53: reviewers.length > 0 *)
NonEmpty(reviewers) == Len(reviewers) > 0

(* variant: the list is passed on as it is *)
Unfiltered(reviewers) == reviewers

(* line 79: reviewers.filter(r => !!r) *)
FilterTruthy(reviewers) == SelectSeq(reviewers, LAMBDA r : r # Undefined /\ r # <<>>)

(* variant: a rejected request does not stop the run *)
AfterRequestIgnoringFailure(ok) == "alert"

(* lines 52-58: where run() continues after the awaited request: line 53   *)
(* when it resolved, the catch block and the end when it rejected           *)
AfterRequest(ok) == IF ok THEN "alert" ELSE "done"

(* line 52: reviewers.length > 0 && (await this.setReviewers(reviewers)); *)
(* a rejection is caught at lines 55-57                                    *)
SetReviewers ==
    /\ pc = "setReviewers"
    /\ IF NonEmpty(selected)
       THEN /\ requestCalls' = Append(requestCalls, FilterTruthy(selected))
            /\ \E ok \in BOOLEAN :
                 /\ requestFailed' = ~ok
                 /\ failed' = IF ok THEN failed ELSE failed + 1
                 /\ logged' = IF ok THEN logged ELSE logged + 1
                 /\ pc' = AfterRequest(ok)
       ELSE /\ pc' = "alert"
            /\ UNCHANGED <<requestCalls, requestFailed, failed, logged>>
    /\ UNCHANGED <<config, pr, lookup, listCalls, author, selected, gi,
                   reviewersToRequest, sendState, notified, ready, thrown,
                   calls>>
    /\ UNCHANGED pickVars

(* line 53: reviewers.length > 0 && (await this.alertOnSlack(reviewers));  *)
(* alertOnSlack starts incomingWebhook.send (line 100) without awaiting or  *)
(* returning its promise, so run() ends while the send is in flight.        *)
AlertOnSlack ==
    /\ pc = "alert"
    /\ IF NonEmpty(selected)
       THEN /\ sendState' = "inflight"
            /\ notified' = Append(notified, selected)
       ELSE UNCHANGED <<sendState, notified>>
    /\ pc' = "done"
    /\ UNCHANGED <<config, pr, lookup, listCalls, failed, author, selected, gi,
                   reviewersToRequest, requestCalls, requestFailed, ready,
                   logged, thrown, calls>>
    /\ UNCHANGED pickVars

(* the promise of incomingWebhook.send settles; nothing observes it *)
SendSettles ==
    /\ sendState = "inflight"
    /\ \E ok \in BOOLEAN : sendState' = IF ok THEN "ok" ELSE "failed"
    /\ UNCHANGED <<config, pc, pr, lookup, listCalls, failed, author, selected,
                   gi, reviewersToRequest, requestCalls, requestFailed, notified,
                   ready, logged, thrown, calls>>
    /\ UNCHANGED pickVars

Next ==
    \/ IsReadyToReview
    \/ SelectReviewers
    \/ ProcessGroup
    \/ PickIter
    \/ ConcatPicks
    \/ SelectReturn
    \/ SetReviewers
    \/ AlertOnSlack
    \/ SendSettles

Spec == Init /\ [][Next]_vars

(* run() is a single thread of control and the send promise settles. *)
FairSpec == Spec /\ WF_vars(Next)

----------------------------------------------------------------------------
(* Direct calls of getPR, isReadyToReview and getPRAuthor on one instance, *)
(* in any order                                                            *)

InitCalls ==
    /\ pc = "calls"
    /\ items = <<>>
    /\ pickN = 0
    /\ ignore = <<>>
    /\ candidates = <<>>
    /\ picks = <<>>
    /\ iter = 0
    /\ IdleRun

callFrame == <<config, pc, selected, gi, reviewersToRequest, requestCalls,
               requestFailed, sendState, notified, thrown>>

(* lines 187-208: await lottery.getPR() *)
CallGetPR ==
    /\ pc = "calls"
    /\ calls < MaxCalls
    /\ \E resp \in ListResponses :
         LET g == GetPR(pr, resp)
         IN  /\ pr' = g.pr
             /\ lookup' = IF g.calls = 0 THEN lookup ELSE Answer(resp)
             /\ listCalls' = listCalls + g.calls
             /\ failed' = failed + g.fails
             /\ logged' = logged + g.fails
    /\ calls' = calls + 1
    /\ UNCHANGED <<ready, author>>
    /\ UNCHANGED callFrame
    /\ UNCHANGED pickVars

(* lines 61-70: await lottery.isReadyToReview() *)
CallIsReadyToReview ==
    /\ pc = "calls"
    /\ calls < MaxCalls
    /\ \E resp \in ListResponses :
         LET g == GetPR(pr, resp)
         IN  /\ pr' = g.pr
             /\ lookup' = IF g.calls = 0 THEN lookup ELSE Answer(resp)
             /\ listCalls' = listCalls + g.calls
             /\ failed' = failed + g.fails
             /\ logged' = logged + g.fails
             /\ ready' = <<IsReady(g.ret)>>
    /\ calls' = calls + 1
    /\ UNCHANGED author
    /\ UNCHANGED callFrame
    /\ UNCHANGED pickVars

(* lines 164-175: await lottery.getPRAuthor() *)
CallGetPRAuthor ==
    /\ pc = "calls"
    /\ calls < MaxCalls
    /\ \E resp \in ListResponses :
         LET g == GetPR(pr, resp)
         IN  /\ pr' = g.pr
             /\ lookup' = IF g.calls = 0 THEN lookup ELSE Answer(resp)
             /\ listCalls' = listCalls + g.calls
             /\ failed' = failed + g.fails
             /\ logged' = logged + g.fails
             /\ author' = AuthorOf(g.ret)
    /\ calls' = calls + 1
    /\ UNCHANGED ready
    /\ UNCHANGED callFrame
    /\ UNCHANGED pickVars

NextCalls == CallGetPR \/ CallIsReadyToReview \/ CallGetPRAuthor

SpecCalls == InitCalls /\ [][NextCalls]_vars

(* C11: once a pull request is cached, a later getPR, isReadyToReview or   *)
(* getPRAuthor call keeps it, returns what the cached pull request gives   *)
(* (so the same value as any earlier call on it) and makes no list call.   *)
C11_CachedPR ==
    [][pr # <<>> =>
         /\ pr' = pr
         /\ listCalls' = listCalls
         /\ failed' = failed
         /\ ready' \in {ready, <<IsReady(pr)>>}
         /\ author' \in {author, AuthorOf(pr)}]_vars

(* three calls were made after the one that cached the pull request *)
C11_Witness ==
    /\ pc = "calls"
    /\ pr # <<>>
    /\ listCalls = 1
    /\ calls >= 4
    /\ ready = <<IsReady(pr)>>
    /\ author = AuthorOf(pr)

(* C11, for a run: run() makes at most one list call *)
C11_RunListsOnce == listCalls <= 1

----------------------------------------------------------------------------
(* Properties of pickRandom, checked on direct calls (SpecPick) *)

Distinct(arr) == \A i, j \in 1..Len(arr) : i # j => arr[i] # arr[j]

(* E: the number of elements of items that are not in ignore *)
EligibleCount(its, ign) == Cardinality({i \in 1..Len(its) : ~Includes(ign, its[i])})

(* C1: a returned pickRandom(items, n, ignore) has exactly min(n, E)       *)
(* entries, E the number of elements of items not in ignore, and none of   *)
(* them is a placeholder.                                                  *)
C1_ResultSize ==
    pc = "returned" =>
        /\ Len(picks) = Min(pickN, EligibleCount(items, ignore))
        /\ ~Includes(picks, Undefined)

(* C2: every call of pickRandom returns, whatever the random draws. *)
C2_Terminates == <>(pc = "returned")

(* C3: every entry of a returned result is an element of items, none is an *)
(* element of ignore, and the entries are pairwise distinct.               *)
C3_ResultSound ==
    pc = "returned" =>
        /\ \A i \in 1..Len(picks) :
             Includes(items, picks[i]) /\ ~Includes(ignore, picks[i])
        /\ Distinct(picks)

----------------------------------------------------------------------------
(* Properties of selectReviewers and run (Spec) *)

Returned == pc \in {"setReviewers", "alert", "done"} /\ gi >= 1

(* C4: the list returned by selectReviewers never contains the PR author. *)
C4_AuthorNeverSelected == Returned => ~Includes(selected, author)

(* a selection that returned picks although the author is in every pool *)
C4_Witness ==
    /\ Returned
    /\ Len(config) = 2
    /\ \A g \in 1..Len(config) : Includes(Usernames(config[g]), author)
    /\ Len(selected) >= 2

(* C5: the list returned by selectReviewers contains no entry twice, and   *)
(* the accumulated list is duplicate-free after each group.                *)
C5_NoDuplicates == (pc = "group" \/ Returned) => Distinct(selected)

(* the group whose count was resolved last *)
LastGroup == IF pc = "pick" THEN gi ELSE gi - 1

(* the count C6 states: internal_reviewers whenever it is defined and the  *)
(* author is in the pool, reviewers otherwise                              *)
StatedCount(group, auth) ==
    IF Includes(Usernames(group), auth) /\ group.internal_reviewers # NoCount
    THEN group.internal_reviewers
    ELSE group.reviewers

(* the number of picks a count asks for: none when it is zero or undefined *)
Draws(count) == IF count = NoCount THEN 0 ELSE count

(* C6: the draw count of a group is internal_reviewers when the author is  *)
(* in the group's pool and internal_reviewers is defined (any non-negative *)
(* value), reviewers otherwise; a zero or undefined count draws nothing.   *)
C6_DrawCount ==
    (pc \in {"pick", "group"} /\ LastGroup >= 1) =>
        /\ Draws(reviewersToRequest) = Draws(StatedCount(config[LastGroup], author))
        /\ (pc = "pick" => pickN = Draws(StatedCount(config[LastGroup], author)))
        /\ (Draws(StatedCount(config[LastGroup], author)) = 0 => pc = "group")

NoSideEffects ==
    /\ requestCalls = <<>>
    /\ notified = <<>>
    /\ sendState = "none"

NoSelection == gi = 0 /\ selected = <<>> /\ picks = <<>>

(* C7: when the pull request on the ref exists and is a draft, the run     *)
(* ends without a reviewer request, a notification, a selection or a       *)
(* failure signal.                                                         *)
C7_DraftSkipped ==
    (pr # <<>> /\ pr[1].draft) =>
        /\ pc = "done"
        /\ NoSideEffects
        /\ NoSelection
        /\ failed = 0

C7_Witness == pc = "done" /\ lookup = "match" /\ pr # <<>> /\ pr[1].draft

(* C8: when no pull request of the answer is on the configured ref, the    *)
(* run is reported failed and ends without selection or side effects.      *)
C8_NotFoundFails ==
    lookup = "nomatch" =>
        /\ pc = "done"
        /\ failed >= 1
        /\ NoSideEffects
        /\ NoSelection

C8_Witness == pc = "done" /\ lookup = "nomatch" /\ listCalls = 1 /\ failed = 1

(* C9: when the reviewer request or the chat notification fails, the run   *)
(* ends marked as failed.                                                  *)
C9_FailuresSignalled ==
    (pc = "done" /\ (requestFailed \/ sendState = "failed")) => failed >= 1

(* C10: when selectReviewers returns an empty list, neither the reviewer   *)
(* request nor the chat notification is made.                              *)
C10_EmptySkipped == (Returned /\ selected = <<>>) => NoSideEffects

C10_Witness == pc = "done" /\ gi > Len(config) /\ selected = <<>> /\ lookup = "match"

(* C12: a run signals failure (core.setFailed) at most once. *)
C12_SingleFailureSignal == failed <= 1

(* a value that is a real username: a non-empty string *)
RealUsername(v) == IsString(v) /\ v # <<>>

(* C13: every username list passed to the reviewer request holds only     *)
(* real, non-empty usernames.                                              *)
C13_NoFalsyRequested ==
    \A c \in 1..Len(requestCalls) :
        \A i \in 1..Len(requestCalls[c]) : RealUsername(requestCalls[c][i])

(* a request made for a selection that held a placeholder and a username *)
C13_Witness ==
    /\ Len(requestCalls) = 1
    /\ Includes(selected, Undefined)
    /\ Len(requestCalls[1]) >= 1
    /\ Len(requestCalls[1]) < Len(selected)

(* C14: when run() reaches its end, the chat notification it started has   *)
(* completed: no collaborator call is still in flight.                     *)
C14_NothingInFlightAtEnd == pc = "done" => sendState # "inflight"

(* C15: the chat notification is started only after the reviewer request   *)
(* has completed successfully; after a failed request it is not attempted. *)
C15_NotifyAfterRequest ==
    /\ (sendState # "none" \/ notified # <<>>) =>
           (Len(requestCalls) = 1 /\ ~requestFailed)
    /\ requestFailed => (pc = "done" /\ notified = <<>> /\ sendState = "none")

C15_Witness ==
    /\ pc = "done"
    /\ requestFailed
    /\ Len(requestCalls) = 1
    /\ failed >= 1

(* C16: when the step of group k throws, selectReviewers logs the failure, *)
(* processes no later group and returns, without throwing, exactly what    *)
(* groups 1..k-1 had accumulated.                                          *)
C16_PartialSelection ==
    thrown # <<>> =>
        LET k == thrown[1].group
        IN  /\ pc \in {"setReviewers", "alert", "done"}
            /\ gi = k
            /\ logged >= 1
            /\ selected = thrown[1].selected
            /\ \A i \in 1..Len(selected) :
                 \/ selected[i] = Undefined
                 \/ \E j \in 1..(k - 1) : Includes(Usernames(config[j]), selected[i])
            /\ (pc = "done" /\ NonEmpty(selected)) => Len(requestCalls) = 1

(* the second group threw after the first had contributed a username *)
C16_Witness ==
    /\ thrown # <<>>
    /\ thrown[1].group = 2
    /\ pc = "done"
    /\ \E i \in 1..Len(selected) : RealUsername(selected[i])
    /\ Len(requestCalls) = 1

(* C18: the reviewer request is never made with an empty username list     *)
(* and every notification is for a selection holding a real username.      *)
C18_RealReviewerSelected ==
    /\ \A c \in 1..Len(requestCalls) : requestCalls[c] # <<>>
    /\ \A c \in 1..Len(notified) :
         \E i \in 1..Len(notified[c]) : RealUsername(notified[c][i])

====
